---------------------------- MODULE Spec2Model ----------------------------
(***************************************************************************)
(* RingBuffer<T, capacity> of include/ringbuffer.h: a lock-free ring       *)
(* buffer for a single producer and a single consumer.                     *)
(*                                                                         *)
(* In the source `tail` is the index Push writes at (the write index) and  *)
(* `head` is the index Pop reads from (the read index).                    *)
(*                                                                         *)
(* Execution model (header comment, lines 31-32): a unicore Cortex-M3,     *)
(* where every access to a volatile index is one indivisible step taken in *)
(* program order.  memcpy is modelled as one step per field of the item,   *)
(* so that the other context can run between any two field copies.        *)
(*                                                                         *)
(* The buffer copies items and never inspects them, so the producer pushes *)
(* items that are pairwise different in every field: the n-th item ever    *)
(* accepted is Item(n).  Any loss, duplication, reordering, torn or stale  *)
(* read is then visible in the values themselves.                          *)
(***************************************************************************)
EXTENDS Integers, Sequences, FiniteSets

\* ------------------------------------------------------------------ bounds
\* largest template parameter `capacity` that is instantiated
MaxCapacity == 4
\* number of fields (memcpy units) of value_type
NumFields == 2
\* number of items accepted over the whole run
MaxPushes == 6
\* calls of Reset that need not be quiescent, per run
MaxResets == 1
\* accepted items before the two producers stop calling Push
MaxPushesTwo == 3

\* content of storage that was never written (data has no initialiser):
\* different from every field of every item a caller pushes
Indeterminate == 0

Fields == 1 .. NumFields

Item(n) == [f \in Fields |-> (n - 1) * NumFields + f]

NoItem == [f \in Fields |-> Indeterminate]

VARIABLES
    capacity,       \* template parameter
    data,           \* volatile value_type data[capacity]
    head,           \* volatile size_t head: read index, written by Pop
    tail,           \* volatile size_t tail: write index, written by Push
    ppc,            \* producer: position inside Push
    current_tail,   \* Push local
    next_tail,      \* Push local
    push_item,      \* Push parameter `item`
    pidx,           \* next field memcpy of Push copies
    cpc,            \* consumer: position inside Pop
    current_head,   \* Pop local
    pop_item,       \* Pop parameter `item`: the caller's output variable
    cidx,           \* next field memcpy of Pop copies
    pushRet,        \* value returned by the last Push since construction/Reset
    popRet,         \* value returned by the last Pop since construction/Reset
    accepted,       \* history: number of Push calls that returned true, ever
    pushed,         \* history: items accepted since construction/Reset
    popped,         \* history: items returned by Pop since construction/Reset
    wasReset,       \* history: Reset has been called
    streak,         \* history: successful pushes since the buffer was last
                    \* empty with no successful Pop since; -1 otherwise
    queue,          \* reference FIFO run in lock step with the calls
    qctx,           \* context calling Size, IsEmpty or IsFull
    qop,            \* which of the three it calls
    qpc,            \* position inside that call
    qfirst,         \* the index the call read first
    q_val,          \* the value it read
    q_snap,         \* history: what the call would have returned at that read
    qRet,           \* the value the call returns (bool as 0 / 1)
    pobs,           \* history: the producer's last IsFull() returned false
    cobs,           \* history: the consumer's last IsEmpty() returned false
    rpc,            \* position inside a Reset that is not quiescent
    overlap,        \* history: a Reset overlapped a Push or a Pop
    resets,         \* history: calls of Reset that need not be quiescent
    ppc2,           \* second producer: position inside Push
    current_tail2,  \* second producer: Push local
    next_tail2,     \* second producer: Push local
    push_item2,     \* second producer: Push parameter `item`
    pidx2,          \* second producer: next field memcpy copies
    pushRet2,       \* second producer: value returned by its last Push
    overlap2        \* history: two Push calls were in progress at once

bufvars  == <<capacity, data, head, tail>>
prodvars == <<ppc, current_tail, next_tail, push_item, pidx>>
consvars == <<cpc, current_head, pop_item, cidx>>
histvars == <<pushRet, popRet, accepted, pushed, popped, wasReset, streak, queue>>
qryvars  == <<qctx, qop, qpc, qfirst, q_val, q_snap, qRet, pobs, cobs>>
rstvars  == <<rpc, overlap, resets>>
prod2vars == <<ppc2, current_tail2, next_tail2, push_item2, pidx2, pushRet2, overlap2>>
extvars  == <<qryvars, rstvars, prod2vars>>
vars     == <<bufvars, prodvars, consvars, histvars, extvars>>

\* ---------------------------------------------------------- pure functions
\* the index advanced without the modulo
increment_NoWrap(idx) == idx + 1

increment(idx) == (idx + 1) % capacity

\* the difference of the indices taken without the wrap-around
Size_NoWrap == tail - head

\* tail - head + capacity is computed in size_t; since both indices are below
\* capacity the sum is in 1 .. 2*capacity-1 after the unsigned wrap-around
Size == (tail - head + capacity) % capacity

IsEmpty == head = tail

\* the write index compared without being advanced
IsFull_NoIncrement == tail = head

\* full taken to mean that Size() has reached the template parameter
IsFull_SizeIsCapacity == Size = capacity

IsFull == increment(tail) = head

\* ---------------------------------------------------------- reference FIFO
\* a queue bounded to capacity - 1 elements
RefPushOk(q) == Len(q) < capacity - 1

RefPush(q, v) == IF RefPushOk(q) THEN Append(q, v) ELSE q

RefPopOk(q) == q # <<>>

RefPop(q) == IF RefPopOk(q) THEN Tail(q) ELSE q

\* ------------------------------------------------------------ construction
Init ==
    /\ capacity \in 1 .. MaxCapacity
    /\ data = [i \in 0 .. capacity - 1 |-> NoItem]
    /\ head = 0
    /\ tail = 0
    /\ ppc = "idle" /\ current_tail = 0 /\ next_tail = 0
    /\ push_item = NoItem /\ pidx = 0
    /\ cpc = "idle" /\ current_head = 0 /\ pop_item = NoItem /\ cidx = 0
    /\ pushRet = "none" /\ popRet = "none"
    /\ accepted = 0 /\ pushed = <<>> /\ popped = <<>>
    /\ wasReset = FALSE /\ streak = 0 /\ queue = <<>>
    /\ qctx = "none" /\ qop = "none" /\ qpc = "idle" /\ qfirst = "none"
    /\ q_val = 0 /\ q_snap = -1 /\ qRet = -1
    /\ pobs = FALSE /\ cobs = FALSE
    /\ rpc = "idle" /\ overlap = FALSE /\ resets = 0
    /\ ppc2 = "idle" /\ current_tail2 = 0 /\ next_tail2 = 0
    /\ push_item2 = NoItem /\ pidx2 = 0 /\ pushRet2 = "none"
    /\ overlap2 = FALSE

\* -------------------------------------------------------------------- Push
\* lines 66-69: the call with its argument, current_tail = tail,
\* next_tail = increment(current_tail)
PushBegin ==
    /\ ppc = "idle"
    /\ accepted < MaxPushes
    /\ push_item' = Item(accepted + 1)
    /\ current_tail' = tail
    /\ next_tail' = increment(tail)
    /\ ppc' = "check"
    /\ UNCHANGED <<bufvars, pidx, consvars, histvars>>

\* the full test left out: Push stores into the slot whatever head is
PushHasRoom_Always == TRUE

\* the full test made on the index before it is advanced
PushHasRoom_CompareCurrent == current_tail # head

\* line 71: the condition, with its read of head
PushHasRoom == next_tail # head

\* a Push that waits for room instead of returning false
PushCheck_WaitsForRoom ==
    /\ ppc = "check"
    /\ PushHasRoom
    /\ ppc' = "copy"
    /\ pidx' = 1
    /\ UNCHANGED <<current_tail, next_tail, push_item, histvars>>
    /\ UNCHANGED <<bufvars, consvars>>

\* line 71 and, when full, line 78
PushCheck ==
    /\ ppc = "check"
    /\ IF PushHasRoom
          THEN /\ ppc' = "copy"
               /\ pidx' = 1
               /\ UNCHANGED <<current_tail, next_tail, push_item, histvars>>
          ELSE /\ ppc' = "idle"
               /\ pushRet' = "false"
               /\ queue' = RefPush(queue, push_item)
               /\ current_tail' = 0 /\ next_tail' = 0
               /\ push_item' = NoItem /\ pidx' = 0
               /\ UNCHANGED <<popRet, accepted, pushed, popped, wasReset, streak>>
    /\ UNCHANGED <<bufvars, consvars>>

\* line 73: what memcpy stores in one step
PushStored == [data EXCEPT ![current_tail][pidx] = push_item[pidx]]

\* the store to tail moved in front of memcpy: the index is published with
\* the first field, the remaining fields follow
PushCopy_PublishFirst ==
    /\ ppc = "copy"
    /\ data' = PushStored
    /\ tail' = next_tail
    /\ IF pidx = NumFields
          THEN ppc' = "publish" /\ pidx' = 0
          ELSE ppc' = "copy" /\ pidx' = pidx + 1
    /\ UNCHANGED <<capacity, head, current_tail, next_tail, push_item,
                   consvars, histvars>>

\* line 73: memcpy into data[current_tail], one field per step
PushCopy ==
    /\ ppc = "copy"
    /\ data' = PushStored
    /\ IF pidx = NumFields
          THEN ppc' = "publish" /\ pidx' = 0
          ELSE ppc' = "copy" /\ pidx' = pidx + 1
    /\ UNCHANGED <<capacity, head, tail, current_tail, next_tail, push_item,
                   consvars, histvars>>

\* the write index stored back without being advanced
PushNewTail_NoAdvance == current_tail

\* line 74: the value assigned to tail
PushNewTail == next_tail

\* lines 74-75: tail = next_tail; return true
PushPublish ==
    /\ ppc = "publish"
    /\ tail' = PushNewTail
    /\ ppc' = "idle"
    /\ pushRet' = "true"
    /\ accepted' = accepted + 1
    /\ pushed' = Append(pushed, push_item)
    /\ streak' = IF streak >= 0 THEN streak + 1 ELSE streak
    /\ queue' = RefPush(queue, push_item)
    /\ current_tail' = 0 /\ next_tail' = 0 /\ push_item' = NoItem
    /\ UNCHANGED <<capacity, data, head, pidx, consvars, popRet, popped, wasReset>>

\* --------------------------------------------------------------------- Pop
\* lines 86-88: the call, current_head = head
PopBegin ==
    /\ cpc = "idle"
    /\ current_head' = head
    /\ cpc' = "check"
    /\ UNCHANGED <<bufvars, prodvars, pop_item, cidx, histvars>>

\* the empty test left out: Pop copies the slot whatever tail is
PopIsEmpty_Never == FALSE

\* the empty test always taken: Pop returns false whatever tail is
PopIsEmpty_Always == TRUE

\* line 89: the condition, with its read of tail
PopIsEmpty == current_head = tail

\* line 89 and, when empty, line 91
PopCheck ==
    /\ cpc = "check"
    /\ IF PopIsEmpty
          THEN /\ cpc' = "idle"
               /\ popRet' = "false"
               /\ queue' = RefPop(queue)
               /\ current_head' = 0 /\ cidx' = 0
               /\ UNCHANGED <<pushRet, accepted, pushed, popped, wasReset, streak>>
          ELSE /\ cpc' = "copy"
               /\ cidx' = 1
               /\ UNCHANGED <<current_head, histvars>>
    /\ UNCHANGED <<bufvars, prodvars, pop_item>>

\* every field of the output filled from the first field of the slot
PopLoaded_FirstFieldOnly == [pop_item EXCEPT ![cidx] = data[current_head][1]]

\* line 94: what memcpy stores in one step
PopLoaded == [pop_item EXCEPT ![cidx] = data[current_head][cidx]]

\* a Pop that destroys what it has copied out
PopCopy_ClearsSlot ==
    /\ cpc = "copy"
    /\ pop_item' = PopLoaded
    /\ data' = [data EXCEPT ![current_head][cidx] = Indeterminate]
    /\ IF cidx = NumFields
          THEN cpc' = "publish" /\ cidx' = 0
          ELSE cpc' = "copy" /\ cidx' = cidx + 1
    /\ UNCHANGED <<capacity, head, tail, prodvars, current_head, histvars>>

\* line 94: memcpy out of data[current_head], one field per step
PopCopy ==
    /\ cpc = "copy"
    /\ pop_item' = PopLoaded
    /\ IF cidx = NumFields
          THEN cpc' = "publish" /\ cidx' = 0
          ELSE cpc' = "copy" /\ cidx' = cidx + 1
    /\ UNCHANGED <<bufvars, prodvars, current_head, histvars>>

\* the read index stored back without being advanced
PopNewHead_NoAdvance == current_head

\* line 95: the value assigned to head
PopNewHead == increment(current_head)

\* lines 95-97: head = increment(current_head); return true
PopPublish ==
    /\ cpc = "publish"
    /\ head' = PopNewHead
    /\ cpc' = "idle"
    /\ popRet' = "true"
    /\ popped' = Append(popped, pop_item)
    /\ streak' = IF Len(popped) + 1 = Len(pushed) THEN 0 ELSE -1
    /\ queue' = RefPop(queue)
    /\ current_head' = 0
    /\ UNCHANGED <<capacity, data, tail, prodvars, pop_item, cidx,
                   pushRet, accepted, pushed, wasReset>>

\* ------------------------------------------------------------------- Reset
\* line 57: the value assigned to head
ResetHead == 0

\* Reset without its assignment to tail
ResetTail_Unchanged == tail

\* line 58: the value assigned to tail
ResetTail == 0

\* lines 55-59, called in a quiescent state (line 54)
Reset ==
    /\ ppc = "idle" /\ cpc = "idle"
    /\ head' = ResetHead
    /\ tail' = ResetTail
    /\ pushRet' = "none" /\ popRet' = "none"
    /\ pushed' = <<>> /\ popped' = <<>> /\ queue' = <<>>
    /\ wasReset' = TRUE
    /\ streak' = 0
    /\ UNCHANGED <<capacity, data, prodvars, consvars, accepted>>

\* ---------------------------------------------------------- specifications
\* one producer and one consumer, interleaved step by step
Next ==
    \/ PushBegin /\ UNCHANGED extvars
    \/ PushCheck /\ UNCHANGED extvars
    \/ PushCopy /\ UNCHANGED extvars
    \/ PushPublish /\ UNCHANGED extvars
    \/ PopBegin /\ UNCHANGED extvars
    \/ PopCheck /\ UNCHANGED extvars
    \/ PopCopy /\ UNCHANGED extvars
    \/ PopPublish /\ UNCHANGED extvars
    \/ Reset /\ UNCHANGED extvars

Spec == Init /\ [][Next]_vars

\* one caller: a call starts only when no other call is in progress
SeqNext ==
    \/ cpc = "idle" /\ PushBegin /\ UNCHANGED extvars
    \/ cpc = "idle" /\ PushCheck /\ UNCHANGED extvars
    \/ cpc = "idle" /\ PushCopy /\ UNCHANGED extvars
    \/ cpc = "idle" /\ PushPublish /\ UNCHANGED extvars
    \/ ppc = "idle" /\ PopBegin /\ UNCHANGED extvars
    \/ ppc = "idle" /\ PopCheck /\ UNCHANGED extvars
    \/ ppc = "idle" /\ PopCopy /\ UNCHANGED extvars
    \/ ppc = "idle" /\ PopPublish /\ UNCHANGED extvars
    \/ Reset /\ UNCHANGED extvars

SpecSeq == Init /\ [][SeqNext]_vars

\* ----------------------------------------------- Size, IsEmpty, IsFull calls
\* the three functions on the values their two volatile reads return
B2I(b) == IF b THEN 1 ELSE 0

\* the difference of the reads taken without the wrap-around
SizeOf_NoWrap(t, h) == t - h

\* line 103
SizeOf(t, h) == (t - h + capacity) % capacity

\* line 111
IsEmptyOf(t, h) == B2I(h = t)

\* line 119
IsFullOf(t, h) == B2I(increment(t) = h)

ResultOf(op, t, h) ==
    CASE op = "Size" -> SizeOf(t, h)
      [] op = "IsEmpty" -> IsEmptyOf(t, h)
      [] op = "IsFull" -> IsFullOf(t, h)

\* what the function returns when evaluated on one state
TrueResult(op) ==
    CASE op = "Size" -> Size
      [] op = "IsEmpty" -> B2I(IsEmpty)
      [] op = "IsFull" -> B2I(IsFull)

Contexts == {"producer", "consumer"}

Queries == {"Size", "IsEmpty", "IsFull"}

\* lines 103, 111, 119: a context that is not inside Push or Pop calls one of
\* the three; the call reads head and tail in either order (the operands of
\* -, == are unsequenced), here the first of the two reads
QueryBegin(ctx, op, first) ==
    /\ qpc = "idle"
    /\ ctx = "producer" => ppc = "idle"
    /\ ctx = "consumer" => cpc = "idle"
    /\ qctx' = ctx /\ qop' = op /\ qfirst' = first
    /\ q_val' = IF first = "tail" THEN tail ELSE head
    /\ q_snap' = TrueResult(op)
    /\ qpc' = "second"
    /\ UNCHANGED <<bufvars, prodvars, consvars, histvars, qRet, pobs, cobs,
                   rstvars, prod2vars>>

\* the second read and the computation of the result
QuerySecond ==
    /\ qpc = "second"
    /\ qRet' = IF qfirst = "tail" THEN ResultOf(qop, q_val, head)
                                  ELSE ResultOf(qop, tail, q_val)
    /\ qpc' = "ret"
    /\ qfirst' = "none" /\ q_val' = 0 /\ q_snap' = -1
    /\ UNCHANGED <<bufvars, prodvars, consvars, histvars, qctx, qop, pobs, cobs,
                   rstvars, prod2vars>>

\* the return to the caller, which keeps what it observed
QueryReturn ==
    /\ qpc = "ret"
    /\ pobs' = IF qctx = "producer" /\ qop = "IsFull" THEN qRet = 0 ELSE pobs
    /\ cobs' = IF qctx = "consumer" /\ qop = "IsEmpty" THEN qRet = 0 ELSE cobs
    /\ qpc' = "idle" /\ qctx' = "none" /\ qop' = "none" /\ qRet' = -1
    /\ UNCHANGED <<bufvars, prodvars, consvars, histvars, qfirst, q_val, q_snap,
                   rstvars, prod2vars>>

\* one producer and one consumer, each calling Push or Pop and, between its
\* calls, Size, IsEmpty and IsFull
QueryNext ==
    \/ PushBegin /\ qctx # "producer" /\ UNCHANGED extvars
    \/ PushCheck /\ pobs' = FALSE
                 /\ UNCHANGED <<qctx, qop, qpc, qfirst, q_val, q_snap, qRet, cobs,
                                rstvars, prod2vars>>
    \/ PushCopy /\ UNCHANGED extvars
    \/ PushPublish /\ UNCHANGED extvars
    \/ PopBegin /\ qctx # "consumer" /\ UNCHANGED extvars
    \/ PopCheck /\ cobs' = FALSE
                /\ UNCHANGED <<qctx, qop, qpc, qfirst, q_val, q_snap, qRet, pobs,
                               rstvars, prod2vars>>
    \/ PopCopy /\ UNCHANGED extvars
    \/ PopPublish /\ UNCHANGED extvars
    \/ \E ctx \in Contexts, op \in Queries, first \in {"head", "tail"} :
          QueryBegin(ctx, op, first)
    \/ QuerySecond
    \/ QueryReturn

SpecQuery == Init /\ [][QueryNext]_vars

\* ------------------------------------------- Reset that is not quiescent
\* line 57, with no regard to line 54: head = 0 at any moment
ResetWritesHead ==
    /\ rpc = "idle"
    /\ resets < MaxResets
    /\ resets' = resets + 1
    /\ head' = ResetHead
    /\ rpc' = "tail"
    /\ overlap' = (overlap \/ ppc # "idle" \/ cpc # "idle")
    /\ UNCHANGED <<capacity, data, tail, prodvars, consvars, histvars,
                   qryvars, prod2vars>>

\* line 58: tail = 0, and the return of Reset
ResetWritesTail ==
    /\ rpc = "tail"
    /\ tail' = ResetTail
    /\ rpc' = "idle"
    /\ overlap' = (overlap \/ ppc # "idle" \/ cpc # "idle")
    /\ pushRet' = "none" /\ popRet' = "none"
    /\ pushed' = <<>> /\ popped' = <<>> /\ queue' = <<>>
    /\ wasReset' = TRUE
    /\ streak' = 0
    /\ UNCHANGED <<capacity, data, head, prodvars, consvars, accepted,
                   resets, qryvars, prod2vars>>

\* a step of Push or Pop taken between the two writes of a Reset overlaps it
DuringReset ==
    /\ overlap' = (overlap \/ rpc # "idle")
    /\ UNCHANGED <<rpc, resets, qryvars, prod2vars>>

\* one producer, one consumer, and Reset called at any moment
ResetNext ==
    \/ PushBegin /\ DuringReset
    \/ PushCheck /\ DuringReset
    \/ PushCopy /\ DuringReset
    \/ PushPublish /\ DuringReset
    \/ PopBegin /\ DuringReset
    \/ PopCheck /\ DuringReset
    \/ PopCopy /\ DuringReset
    \/ PopPublish /\ DuringReset
    \/ ResetWritesHead
    \/ ResetWritesTail

SpecReset == Init /\ [][ResetNext]_vars

\* ------------------------------------------- Push from a second context
\* lines 66-69 in a second producer: the call, current_tail = tail,
\* next_tail = increment(current_tail); its items are tagged apart from the
\* first producer's
Push2Begin ==
    /\ ppc2 = "idle"
    /\ accepted < MaxPushesTwo
    /\ push_item2' = Item(MaxPushes + accepted + 1)
    /\ current_tail2' = tail
    /\ next_tail2' = increment(tail)
    /\ ppc2' = "check"
    /\ overlap2' = (overlap2 \/ ppc # "idle")
    /\ UNCHANGED <<pidx2, pushRet2>>
    /\ UNCHANGED <<bufvars, prodvars, consvars, histvars, qryvars, rstvars>>

\* line 71 in the second producer
Push2HasRoom == next_tail2 # head

\* line 71 and, when full, line 78
Push2Check ==
    /\ ppc2 = "check"
    /\ IF Push2HasRoom
          THEN /\ ppc2' = "copy"
               /\ pidx2' = 1
               /\ UNCHANGED <<current_tail2, next_tail2, push_item2, pushRet2>>
          ELSE /\ ppc2' = "idle"
               /\ pushRet2' = "false"
               /\ current_tail2' = 0 /\ next_tail2' = 0
               /\ push_item2' = NoItem /\ pidx2' = 0
    /\ UNCHANGED <<bufvars, prodvars, consvars, histvars, qryvars, rstvars,
                   overlap2>>

\* line 73: memcpy into data[current_tail], one field per step
Push2Copy ==
    /\ ppc2 = "copy"
    /\ data' = [data EXCEPT ![current_tail2][pidx2] = push_item2[pidx2]]
    /\ IF pidx2 = NumFields
          THEN ppc2' = "publish" /\ pidx2' = 0
          ELSE ppc2' = "copy" /\ pidx2' = pidx2 + 1
    /\ UNCHANGED <<capacity, head, tail, current_tail2, next_tail2,
                   push_item2, pushRet2, overlap2>>
    /\ UNCHANGED <<prodvars, consvars, histvars, qryvars, rstvars>>

\* lines 74-75: tail = next_tail; return true
Push2Publish ==
    /\ ppc2 = "publish"
    /\ tail' = next_tail2
    /\ ppc2' = "idle"
    /\ pushRet2' = "true"
    /\ accepted' = accepted + 1
    /\ pushed' = Append(pushed, push_item2)
    /\ streak' = IF streak >= 0 THEN streak + 1 ELSE streak
    /\ queue' = RefPush(queue, push_item2)
    /\ current_tail2' = 0 /\ next_tail2' = 0 /\ push_item2' = NoItem
    /\ UNCHANGED <<capacity, data, head, pidx2, overlap2, pushRet, popRet,
                   popped, wasReset>>
    /\ UNCHANGED <<prodvars, consvars, qryvars, rstvars>>

\* a step of the first producer or of the consumer beside a second producer
BesideSecond ==
    UNCHANGED <<qryvars, rstvars, ppc2, current_tail2, next_tail2,
                push_item2, pidx2, pushRet2>>

\* two contexts calling Push, one calling Pop
TwoProducersNext ==
    \/ /\ accepted < MaxPushesTwo
       /\ PushBegin
       /\ overlap2' = (overlap2 \/ ppc2 # "idle")
       /\ BesideSecond
    \/ PushCheck /\ UNCHANGED overlap2 /\ BesideSecond
    \/ PushCopy /\ UNCHANGED overlap2 /\ BesideSecond
    \/ PushPublish /\ UNCHANGED overlap2 /\ BesideSecond
    \/ Push2Begin
    \/ Push2Check
    \/ Push2Copy
    \/ Push2Publish
    \/ PopBegin /\ UNCHANGED overlap2 /\ BesideSecond
    \/ PopCheck /\ UNCHANGED overlap2 /\ BesideSecond
    \/ PopCopy /\ UNCHANGED overlap2 /\ BesideSecond
    \/ PopPublish /\ UNCHANGED overlap2 /\ BesideSecond

SpecTwoProducers == Init /\ [][TwoProducersNext]_vars

\* ------------------------------------------------------------------ typing
TypeOK ==
    /\ capacity \in 1 .. MaxCapacity
    /\ head \in 0 .. capacity - 1
    /\ tail \in 0 .. capacity - 1
    /\ ppc \in {"idle", "check", "copy", "publish"}
    /\ cpc \in {"idle", "check", "copy", "publish"}
    /\ accepted \in 0 .. MaxPushes


\* ------------------------------------------------------------------ claims
Range(s) == {s[i] : i \in 1 .. Len(s)}

IsPrefix(s, t) == Len(s) <= Len(t) /\ \A i \in 1 .. Len(s) : s[i] = t[i]

Quiescent == ppc = "idle" /\ cpc = "idle"

\* the step in which Push evaluates its full test (line 71)
PushDecides == ppc = "check" /\ ppc' # "check"

\* the step in which Pop evaluates its empty test (line 89)
PopDecides == cpc = "check" /\ cpc' # "check"

\* C1: in every interleaving of the steps of one producer and one consumer,
\* the sequence of values returned by successful Pop calls is a prefix of the
\* sequence of values accepted by successful Push calls, and the accepted
\* values are the ones the producer offered, in order.
C1_PoppedIsPrefixOfPushed ==
    /\ IsPrefix(popped, pushed)
    /\ \A i \in 1 .. Len(pushed) : pushed[i] = Item(accepted - Len(pushed) + i)

\* a Pop is copying out its fourth value while a Push is copying in, with the
\* write index wrapped around behind the read index
C1_Witness ==
    /\ Len(popped) >= 3
    /\ ppc = "copy" /\ cpc = "copy"
    /\ tail < head

\* C2: Push returns false exactly when advancing the write index by one slot
\* (modulo capacity) equals the read index it observes, and a failing Push
\* changes neither index nor any slot nor what is queued: Size, IsEmpty,
\* IsFull and the values still to be popped are as before the call.
C2_PushFailsExactlyWhenFull ==
    [][PushDecides =>
          /\ (ppc' = "idle" /\ pushRet' = "false") <=> (increment(tail) = head)
          /\ (ppc' = "copy") <=> (increment(tail) # head)
          /\ (increment(tail) = head) =>
                /\ head' = head /\ tail' = tail /\ data' = data
                /\ pushed' = pushed /\ popped' = popped
                /\ Size' = Size /\ IsEmpty' = IsEmpty /\ IsFull' = IsFull]_vars

\* a Push has failed on a full buffer whose write index has wrapped around
C2_Witness ==
    /\ pushRet = "false" /\ ppc = "idle"
    /\ capacity >= 3 /\ tail < head
    /\ Len(pushed) - Len(popped) = capacity - 1

\* C3: Pop on an empty buffer (read index equal to the write index it observes)
\* returns false and leaves both indices, every slot and the caller's output
\* variable unchanged.
C3_PopFailsWhenEmpty ==
    [][(PopDecides /\ head = tail) =>
          /\ cpc' = "idle" /\ popRet' = "false"
          /\ head' = head /\ tail' = tail /\ data' = data
          /\ pop_item' = pop_item]_vars

\* a Pop has failed on a buffer that became empty again, at a nonzero index,
\* the output variable still holding the value of an earlier Pop
C3_Witness ==
    /\ popRet = "false" /\ cpc = "idle"
    /\ head = tail /\ head # 0
    /\ Len(popped) >= 2 /\ pop_item = popped[Len(popped)]

\* C4: in every state of every interleaving, Size() equals the number of
\* pushes that have published the write index minus the number of pops that
\* have published the read index, and lies in 0 .. capacity - 1.
C4_SizeIsOccupancy ==
    /\ Size = Len(pushed) - Len(popped)
    /\ Size >= 0
    /\ Size <= capacity - 1

\* the buffer is full across the wrap-around while both calls are in progress
C4_Witness ==
    /\ capacity >= 3
    /\ Size = capacity - 1 /\ tail < head
    /\ ppc # "idle" /\ cpc # "idle"

\* C5: usable capacity is capacity - 1.  Called one after another from an
\* empty buffer at any index position with no Pop in between (streak counts
\* the pushes accepted since), a Push succeeds while fewer than capacity - 1
\* have been accepted and fails once capacity - 1 have; after the k-th
\* accepted one Size() = k, and IsFull() holds exactly at k = capacity - 1.
C5_UsableCapacity ==
    /\ [](streak >= 0 =>
             /\ streak <= capacity - 1
             /\ Size = streak
             /\ IsFull <=> (streak = capacity - 1))
    /\ [][(PushDecides /\ streak >= 0) =>
             /\ (ppc' = "copy") <=> (streak < capacity - 1)
             /\ (ppc' = "idle" /\ pushRet' = "false") <=> (streak = capacity - 1)]_vars
    /\ [][(ppc = "publish" /\ ppc' = "idle" /\ streak >= 0) =>
             /\ pushRet' = "true"
             /\ Size' = streak + 1]_vars

\* from a buffer emptied at a nonzero index, capacity - 1 pushes were
\* accepted across the wrap-around and the next Push has failed
C5_Witness ==
    /\ capacity >= 3
    /\ streak = capacity - 1
    /\ head # 0 /\ tail < head
    /\ pushRet = "false" /\ Quiescent

\* the buffer as the constructor leaves it: no Reset, no Push called yet
FreshlyConstructed == ~wasReset /\ pushRet = "none" /\ ppc = "idle"

\* C6 as stated: for every capacity >= 1 a freshly constructed buffer is
\* empty, not full, has Size() = 0, and Pop fails on it.
C6_FreshForEveryCapacity ==
    FreshlyConstructed =>
        /\ IsEmpty
        /\ ~IsFull
        /\ Size = 0
        /\ popRet # "true"

\* C6 as amended: a freshly constructed buffer is empty, has Size() = 0, and
\* Pop fails on it; it is not full when capacity >= 2 and full when
\* capacity = 1.
C6_FreshState ==
    FreshlyConstructed =>
        /\ IsEmpty
        /\ IsFull <=> (capacity = 1)
        /\ Size = 0
        /\ popRet # "true"

\* Pop has been called on the freshly constructed buffer and has returned false
C6_Witness ==
    /\ FreshlyConstructed
    /\ capacity >= 2
    /\ popRet = "false" /\ cpc = "idle"

\* items accepted before the last Reset
Discarded == {Item(n) : n \in 1 .. accepted} \ Range(pushed)

\* Reset has been called and no Push has published since
AfterReset == wasReset /\ pushed = <<>>

\* C7 as stated: a quiescent Reset from any reachable state leaves the buffer
\* empty, not full, with Size() = 0, the next Pop fails, and no later Pop
\* returns a value pushed before the Reset.
C7_ResetEmptiesNotFull ==
    /\ AfterReset =>
          /\ IsEmpty
          /\ ~IsFull
          /\ Size = 0
          /\ popRet # "true"
    /\ wasReset => \A i \in 1 .. Len(popped) : popped[i] \notin Discarded

\* C7 as amended: the same, IsFull() being false after the Reset when
\* capacity >= 2 and true when capacity = 1.
C7_ResetEmpties ==
    /\ AfterReset =>
          /\ IsEmpty
          /\ IsFull <=> (capacity = 1)
          /\ Size = 0
          /\ popRet # "true"
    /\ wasReset => \A i \in 1 .. Len(popped) : popped[i] \notin Discarded

\* a full buffer with wrapped indices has been Reset, its slots still hold
\* the discarded values, and the next Pop has failed
C7_Witness ==
    /\ AfterReset
    /\ capacity >= 3
    /\ Cardinality(Discarded) > capacity
    /\ \A i \in 0 .. capacity - 1 : data[i] \in Discarded
    /\ popRet = "false" /\ Quiescent

\* the round trip, step by step: Push on an empty buffer proceeds to copy,
\* the Pop that follows it proceeds to copy, and returns true with the pushed
\* value in every field, leaving the buffer empty
PushOnEmptySucceeds ==
    (PushDecides /\ streak = 0) => ppc' = "copy"

PopAfterPushReturnsIt ==
    /\ (PopDecides /\ streak = 1) => cpc' = "copy"
    /\ (cpc = "publish" /\ cpc' = "idle" /\ streak = 1) =>
          /\ popRet' = "true"
          /\ \A f \in Fields : pop_item'[f] = pushed[Len(pushed)][f]
          /\ IsEmpty' /\ Size' = 0

\* C8 as stated: on an empty buffer at any index position Push(v) followed by
\* Pop(x) both succeed, x = v in every field, and the buffer is empty again.
C8_RoundTripAnyCapacity ==
    [][PushOnEmptySucceeds /\ PopAfterPushReturnsIt]_vars

\* C8 as amended: the same for capacity >= 2 (with capacity = 1 the Push
\* fails).
C8_RoundTrip ==
    [][/\ (capacity >= 2) => PushOnEmptySucceeds
       /\ (capacity = 1 /\ PushDecides) => ppc' = "idle" /\ pushRet' = "false"
       /\ PopAfterPushReturnsIt]_vars

\* a Push on a buffer emptied at its last index has been followed by a Pop
\* that has copied the value out and is about to return
C8_Witness ==
    /\ capacity >= 3
    /\ cpc = "publish" /\ streak = 1
    /\ head = capacity - 1 /\ tail = 0
    /\ pop_item = pushed[Len(pushed)]

\* C9: called one after another, Push, Pop, Size, IsEmpty, IsFull and Reset
\* return what the same calls return on a FIFO queue bounded to capacity - 1
\* elements.
C9_RefinesBoundedFifo ==
    /\ [](Quiescent =>
             /\ Size = Len(queue)
             /\ IsEmpty <=> (queue = <<>>)
             /\ IsFull <=> (Len(queue) = capacity - 1))
    /\ [][/\ PushDecides => ((ppc' = "copy") <=> RefPushOk(queue))
          /\ (ppc = "check" /\ ppc' = "idle") => pushRet' = "false"
          /\ (ppc = "publish" /\ ppc' = "idle") =>
                pushRet' = "true" /\ RefPushOk(queue)
          /\ PopDecides => ((cpc' = "copy") <=> RefPopOk(queue))
          /\ (cpc = "check" /\ cpc' = "idle") => popRet' = "false"
          /\ (cpc = "publish" /\ cpc' = "idle") =>
                popRet' = "true" /\ RefPopOk(queue) /\ pop_item' = Head(queue)]_vars

\* capacity 4: three pushes fill the buffer, one Pop makes room, the fourth
\* Push succeeds and the buffer is full again, the write index wrapped
C9_Witness ==
    /\ capacity = 4 /\ Quiescent
    /\ Len(pushed) = 4 /\ Len(popped) = 1
    /\ pushRet = "true" /\ IsFull /\ tail = 0

\* C10: Push stores every field of the item into the slot at the write index
\* before it assigns the advanced write index, so whenever head # tail the
\* slot at head holds the complete oldest unpopped value, and every value a
\* Pop returns is that complete value.
C10_PublicationOrder ==
    /\ [][(tail' # tail /\ ppc # "idle") =>
             /\ \A f \in Fields : data[tail][f] = push_item[f]
             /\ data' = data
             /\ tail' = increment(tail)]_vars
    /\ [](head # tail =>
             /\ Len(popped) < Len(pushed)
             /\ data[head] = pushed[Len(popped) + 1])
    /\ [][(cpc = "publish" /\ cpc' = "idle") =>
             /\ Len(popped) < Len(pushed)
             /\ pop_item = pushed[Len(popped) + 1]
             /\ pop_item \in {Item(n) : n \in 1 .. accepted}]_vars

\* the consumer is copying a value out while the producer has stored only
\* the first field of the next item, the write index wrapped around
C10_Witness ==
    /\ ppc = "copy" /\ pidx > 1
    /\ cpc = "copy" /\ cidx > 1
    /\ tail < head
    /\ data[tail][1] = push_item[1] /\ data[tail][NumFields] # push_item[NumFields]

\* a Push has passed its full test and has not yet published tail
PushHoldsSlot == ppc \in {"copy", "publish"}

\* a Pop has passed its empty test and has not yet published head
PopHoldsSlot == cpc \in {"copy", "publish"}

\* slot i holds a value that was published and is not yet popped
Unpopped(i) == (i - head + capacity) % capacity < Size

\* C11: at every instant the slot a Push is copying into differs from the
\* slot a Pop is copying out of, and a store into a slot never hits a slot
\* that holds an unpopped value or that a Pop is copying out.
C11_SlotExclusivity ==
    /\ []((PushHoldsSlot /\ PopHoldsSlot) => current_tail # current_head)
    /\ [](PushHoldsSlot => ~Unpopped(current_tail))
    /\ [][\A i \in 0 .. capacity - 1 :
             (data'[i] # data[i]) =>
                /\ ~Unpopped(i)
                /\ ~(PopHoldsSlot /\ current_head = i)]_vars

\* the producer is storing the second field into the slot next to the one
\* the consumer is copying out, in a buffer that will be full
C11_Witness ==
    /\ capacity >= 3
    /\ ppc = "copy" /\ pidx > 1
    /\ cpc = "copy" /\ cidx > 1
    /\ Size = capacity - 2
    /\ tail < head

\* the steps of a call that is in progress
PushStep == PushCheck \/ PushCopy \/ PushPublish

PopStep == PopCheck \/ PopCopy \/ PopPublish

\* the largest number of steps a call in progress still takes
PushRank ==
    CASE ppc = "idle" -> 0
      [] ppc = "check" -> NumFields + 2
      [] ppc = "copy" -> NumFields - pidx + 2
      [] ppc = "publish" -> 1

PopRank ==
    CASE cpc = "idle" -> 0
      [] cpc = "check" -> NumFields + 2
      [] cpc = "copy" -> NumFields - cidx + 2
      [] cpc = "publish" -> 1

\* C12: Push and Pop never block.  A call in progress can always take its
\* next step, whatever the state of the other context, and each of its steps
\* brings it strictly closer to its return: it returns after at most
\* NumFields + 3 steps of its own.
C12_NeverBlocks ==
    /\ [](ppc # "idle" => ENABLED PushStep)
    /\ [](cpc # "idle" => ENABLED PopStep)
    /\ [][(ppc # "idle" /\ prodvars' # prodvars) => PushRank' < PushRank]_vars
    /\ [][(cpc # "idle" /\ <<cpc, cidx>>' # <<cpc, cidx>>) => PopRank' < PopRank]_vars

\* a Push is at its full test on a full buffer while the consumer has stopped
\* in the middle of copying a value out
C12_Witness ==
    /\ capacity >= 2
    /\ ppc = "check" /\ next_tail = head
    /\ cpc = "copy" /\ cidx > 1

\* C13: in every state, and at every intermediate step of a call, both
\* indices are in 0 .. capacity - 1; an index changes only by being advanced
\* to (idx + 1) mod capacity or by a Reset to 0.
C13_IndicesInRange ==
    /\ [](/\ head >= 0 /\ head < capacity
          /\ tail >= 0 /\ tail < capacity)
    /\ [][/\ (tail' # tail) =>
                \/ tail' = (tail + 1) % capacity /\ ppc = "publish"
                \/ tail' = 0 /\ Quiescent
          /\ (head' # head) =>
                \/ head' = (head + 1) % capacity /\ cpc = "publish"
                \/ head' = 0 /\ Quiescent]_vars

\* the write index has wrapped to 0 behind a read index at the last slot,
\* after a Reset, in the middle of both calls
C13_Witness ==
    /\ capacity >= 3 /\ wasReset
    /\ tail = 0 /\ head = capacity - 1
    /\ Len(pushed) >= capacity
    /\ ppc = "copy" /\ cpc = "copy"

\* C15: in every reachable state IsFull() holds iff Size() = capacity - 1 and
\* IsEmpty() holds iff Size() = 0.
C15_FullAndEmptyMatchSize ==
    /\ IsFull <=> (Size = capacity - 1)
    /\ IsEmpty <=> (Size = 0)

\* full across the wrap-around: the write index at 0, the read index at 1
C15_Witness ==
    /\ capacity >= 3
    /\ tail = 0 /\ head = 1
    /\ IsFull /\ ~IsEmpty /\ Size = capacity - 1

\* a step of the producer inside Push, of the consumer inside Pop, of a
\* context inside Size, IsEmpty or IsFull
ProducerMoves == prodvars' # prodvars

ConsumerMoves == <<cpc, current_head, cidx>>' # <<cpc, current_head, cidx>>

QueryMoves == qpc' # qpc

\* C14: Push writes only tail and the slot at the old write index, never
\* head; Pop writes only head and the caller's output, never tail or a slot,
\* so the popped slot still holds its value when Pop returns; Size, IsEmpty
\* and IsFull write nothing.
C14_IndexOwnership ==
    [][/\ ProducerMoves =>
             /\ head' = head
             /\ pop_item' = pop_item
             /\ \A i \in 0 .. capacity - 1 : (i # tail) => data'[i] = data[i]
             /\ (tail' # tail) => data' = data
       /\ ConsumerMoves =>
             /\ tail' = tail
             /\ data' = data
             /\ (head' # head) => (pop_item' = pop_item /\ data'[head] = pop_item)
             /\ \A f \in Fields : (pop_item'[f] # pop_item[f]) => head' = head
       /\ QueryMoves =>
             /\ head' = head /\ tail' = tail /\ data' = data
             /\ pop_item' = pop_item]_vars

\* the consumer, whose last Pop left its value in the slot behind head, is
\* inside a query while the producer has stored the first field of an item
C14_Witness ==
    /\ capacity >= 3
    /\ qpc = "second" /\ qctx = "consumer"
    /\ popRet = "true" /\ head # tail
    /\ data[(head + capacity - 1) % capacity] = pop_item
    /\ ppc = "copy" /\ pidx > 1

\* what the function of the call in progress returns in the current state
CurrentResult == TrueResult(qop)

\* C16: the value Size(), IsEmpty() or IsFull() returns to the producer or
\* the consumer, the other context running meanwhile, is the value the
\* function had in a state between the start and the return of the call: the
\* state of its first read or the state of its second read.
C16_QueryIsSnapshot ==
    [][(qpc = "second" /\ qpc' = "ret") =>
          (qRet' = q_snap \/ qRet' = CurrentResult)]_vars

\* Size() is about to return to the consumer a value the buffer had during
\* the call and no longer has: the producer has published in between
C16_Witness ==
    /\ qpc = "ret" /\ qop = "Size" /\ qctx = "consumer"
    /\ qRet # Size
    /\ tail < head

\* C19: after the producer has observed IsFull() = false its next Push passes
\* the full test and returns true, and after the consumer has observed
\* IsEmpty() = false its next Pop passes the empty test and returns true,
\* whatever steps the other context takes in between.
C19_ObservationsStayValid ==
    [][/\ (PushDecides /\ pobs) => ppc' = "copy"
       /\ (ppc = "publish" /\ ppc' = "idle") => pushRet' = "true"
       /\ (PopDecides /\ cobs) => cpc' = "copy"
       /\ (cpc = "publish" /\ cpc' = "idle") => popRet' = "true"]_vars

\* the producer saw the buffer not full, the consumer saw it not empty, and
\* both are at their tests, the write index wrapped around
C19_Witness ==
    /\ capacity >= 3
    /\ pobs /\ ppc = "check"
    /\ cobs /\ cpc = "check"
    /\ tail < head

\* Size() is not the number of items pushed and not yet popped since the
\* Reset, or a Pop has returned a value that was not pushed since the Reset
Corrupted ==
    \/ Size # Len(pushed) - Len(popped)
    \/ \E i \in 1 .. Len(popped) : popped[i] \notin Range(pushed)

\* C17: Reset is not concurrency-safe.  When its two index writes may
\* interleave with a Push or a Pop in progress, a state is reached, with no
\* call in progress, in which Size() differs from the number of items pushed
\* and not yet popped since the Reset and a Pop has returned a value that was
\* not pushed since the Reset (C17_Witness); and the buffer is corrupted in
\* this way only after a Reset has overlapped a Push or a Pop.
C17_CorruptedOnlyByOverlap ==
    (rpc = "idle" /\ Corrupted) => overlap

\* after an overlapping Reset, all calls returned: Size() is not the number
\* of items pushed and not popped, and a Pop returned a value not pushed
\* since
C17_Witness ==
    /\ wasReset /\ rpc = "idle" /\ Quiescent
    /\ Size # Len(pushed) - Len(popped)
    /\ \E i \in 1 .. Len(popped) : popped[i] \notin Range(pushed)

\* C18: multi-producer use corrupts the buffer.  With two contexts calling
\* Push, a state is reached in which both calls returned true and only one of
\* the two accepted values is available to Pop (C18_Witness); and Size()
\* departs from the number of values accepted and not yet popped, or the
\* popped values from the accepted ones in their order, only after one Push
\* began while the other was in progress.
C18_CorruptedOnlyByTwoProducers ==
    (\/ Size # Len(pushed) - Len(popped)
     \/ ~IsPrefix(popped, pushed)) => overlap2

\* both producers' Push returned true, nothing was popped, no call is in
\* progress, and one element is available to Pop
C18_Witness ==
    /\ pushRet = "true" /\ pushRet2 = "true"
    /\ ppc = "idle" /\ ppc2 = "idle" /\ cpc = "idle"
    /\ Len(pushed) = 2 /\ Len(popped) = 0
    /\ Size = 1

\* ------------------------------------------------------- polling contexts
\* the producer keeps calling Push and taking its steps
ProducerPolls == (PushBegin \/ PushStep) /\ UNCHANGED extvars

\* the consumer keeps calling Pop and taking its steps
ConsumerPolls == (PopBegin \/ PopStep) /\ UNCHANGED extvars

\* one producer and one consumer, no Reset
PollNext ==
    \/ PushBegin /\ UNCHANGED extvars
    \/ PushCheck /\ UNCHANGED extvars
    \/ PushCopy /\ UNCHANGED extvars
    \/ PushPublish /\ UNCHANGED extvars
    \/ PopBegin /\ UNCHANGED extvars
    \/ PopCheck /\ UNCHANGED extvars
    \/ PopCopy /\ UNCHANGED extvars
    \/ PopPublish /\ UNCHANGED extvars

\* each context is scheduled again and again (weak fairness of both)
SpecFair ==
    Init /\ [][PollNext]_vars /\ WF_vars(ProducerPolls) /\ WF_vars(ConsumerPolls)

\* every value accepted by a successful Push is eventually returned by Pop,
\* in its place
AcceptedIsReturned ==
    \A n \in 1 .. MaxPushes :
        (Len(pushed) >= n)
            ~> (Len(popped) >= n /\ Len(pushed) >= n /\ popped[n] = pushed[n])

\* the statement of C20 for every capacity: it fails for capacity 1, where
\* zero slots are usable and every Push returns false
C20_PollingProgressAnyCapacity ==
    /\ AcceptedIsReturned
    /\ (pushRet = "false") ~> (pushRet = "true")

\* C20: polling makes progress.  Under weak fairness of the producer and of
\* the consumer, every value accepted by a successful Push is eventually
\* returned by a Pop, and, for capacity >= 2, a producer that retries a Push
\* that returned false eventually gets true.
C20_PollingProgress ==
    /\ AcceptedIsReturned
    /\ (capacity >= 2 /\ pushRet = "false") ~> (pushRet = "true")

\* the retry of a Push that returned false is about to return true, and the
\* first accepted value has been returned by Pop
C20_Witness ==
    /\ capacity >= 2
    /\ pushRet = "false" /\ ppc = "publish"
    /\ Len(popped) >= 1 /\ popped[1] = pushed[1]

=============================================================================
